---- MODULE Spec2Model ----
(***************************************************************************)
(* A model of node-opcua-pki's CertificateManager                          *)
(* (src/lib/pki/certificate_manager.ts): the trust store kept in the       *)
(* directories trusted/ and rejected/, its in-memory index _thumbs, the    *)
(* bootstrap of the PKI directory and the verification chain.  Every       *)
(* asynchronous callback of the source is one action; an operation in      *)
(* flight is a record of the function proc.                                *)
(***************************************************************************)
EXTENDS Integers, FiniteSets, Sequences, TLC

\* ------------------------------------------------------------------ bounds
NumCerts == 2
NumProcs == 2
MaxTime == 3
MaxCommands == 2
NumChars == 2
MaxLen == 3
MaxComputed == 2

Certs == 1..NumCerts
Procs == 1..NumProcs
Times == 0..MaxTime

\* ------------------------------------------------------- values of the code
\* A missing certificate argument (null / undefined): falsy in `!certificate`.
Null == 0
\* A zero-length Buffer: an object, hence truthy in `!certificate`.
Empty == NumCerts + 1

Folders == {"trusted", "rejected"}

\* makeSHA1Thumbprint(certificate).toString("hex"): an injective digest of the
\* certificate bytes; thumbprints are kept apart from the certificates.
makeSHA1Thumbprint(c) == c + NumCerts + 1

Thumbs == {makeSHA1Thumbprint(c) : c \in Certs}

\* exploreCertificateInfo(certificate).notBefore / .notAfter of the
\* certificates of the model: certificate c is valid in [1, 1 + c).
NotBefore(c) == 1
NotAfter(c) == 1 + c

VARIABLES
    files,       \* files[d]: the thumbprints t with a file <root>/d/<t>.pem
    own,         \* what exists under <root>: the directories, own/openssl.cnf, the private key
    thumbs,      \* this._thumbs: the in-memory index, one set per folder
    revoked,     \* the certificate authority's revocation record
    proc,        \* the operations in flight, one record per caller
    lastStatus,  \* history: the certificate and the result of the operation that
                 \* returned last, when that was a getCertificateStatus without
                 \* error, and whether it wrote the certificate to rejected/
    issued,      \* what createCertificateRequest and createSelfSignedCertificate have
                 \* left under own/certs, and the clock they read
    cli,         \* the command-line tool: its shared instances and its pipeline
    lastMove     \* history: how the last trustCertificate / rejectCertificate of a
                 \* certificate ended: "trusted" or "rejected" (its target, when it
                 \* returned no error), "failed" (it returned an error), else "none"

vars == <<files, own, thumbs, revoked, proc, lastMove, lastStatus, issued, cli>>

\* The status the directories give a thumbprint: the folder that holds
\* <thumbprint>.pem, if any.
DirStatus(t) ==
    IF t \in files.trusted THEN "trusted"
    ELSE IF t \in files.rejected THEN "rejected"
    ELSE "unknown"

\* own/certs/self_signed_certificate.pem, and the output files a caller can name.
SelfSignedCertificatePath == 1
Paths == {SelfSignedCertificatePath, SelfSignedCertificatePath + 1}

\* The Params a caller passes to createCertificateRequest and to
\* createSelfSignedCertificate: whether rootDir, configFile and privateKey are
\* set, the outputFile (Null: not given) and whether applicationUri is a string.
ParamsSet ==
    [rootDir : BOOLEAN, configFile : BOOLEAN, privateKey : BOOLEAN,
     outputFile : Paths \cup {Null}, applicationUri : BOOLEAN]

NoParams ==
    [rootDir |-> FALSE, configFile |-> FALSE, privateKey |-> FALSE,
     outputFile |-> Null, applicationUri |-> TRUE]

\* The field left is the caller's params object as the operation leaves it.
\* The fields toolchain and composedBefore are history too: whether the operation
\* has called a function of the crypto toolchain, and whether the file name it
\* composed for its request had been composed by an earlier call.
\* The fields before, lookup, consulted, callbacks and keygen are history: where
\* the certificate's file was when the operation was called, what the lookup in
\* the index gave, whether it was made, how often the callback ran, and how the
\* operation's call of createPrivateKey ended ("generated", "failed", or "none"
\* when it made no such call).
IdleProc ==
    [pc |-> "idle", kind |-> "none", cert |-> Null, newStatus |-> "none",
     now |-> 0, notBefore |-> 0, notAfter |-> 0,
     folder |-> "none", pending |-> {}, lookup |-> "none", status |-> "none",
     err |-> "none", callbacks |-> 0, consulted |-> FALSE, before |-> "none",
     keygen |-> "none",
     params |-> NoParams, csr |-> <<>>, output |-> Null,
     toolchain |-> FALSE, composedBefore |-> FALSE, left |-> NoParams]

NoStatus == [cert |-> Null, status |-> "none", wrote |-> FALSE]

\* own/certs holds no request and no certificate; the clock is at its origin.
\* The files of the demo: the certificate of one application and its request.
certificate_file == "client_cert_1024.pem"
DemoFiles == {certificate_file, "client_cert_1024.pem.csr"}

\* What a file holds: nothing (it does not exist), a request, or the
\* certificate with a serial number of the authority (1, 2, ...).
Absent == 0
Request == 0 - 1

\* signed and serial are the certificates the authority has signed for the
\* certificate command, as pairs of file and serial number, and its last serial
\* number; caKey is whether the authority's folder is initialized; demo is what
\* the files of the demo hold and demoKey whether the demo's private key exists;
\* output is what gLocalConfig.outputFile, the output of the certificate
\* command, holds.
NothingIssued ==
    [now |-> 0, csr |-> {}, composed |-> {}, certs |-> {},
     signed |-> {}, serial |-> 0, caKey |-> FALSE,
     demo |-> [f \in DemoFiles |-> Absent], demoKey |-> FALSE, output |-> Absent]

\* The key sizes of the toolchain (part_000, line 291), a number that is none
\* of them, no key size at all (undefined, or 0 on the command line), and the
\* value of gLocalConfig.keySize while config.js has not been loaded.
KeySizes == {1024, 2048, 3072, 4096}

OtherKeySize == 512

NoKeySize == 0

NotLoaded == 0 - 1

\* Host names are strings of at most MaxLen characters out of NumChars; the
\* empty string is one of them.  NoName is null, the value of
\* _fullyQualifiedDomainNameCache before the first call (hostname.ts, line 10),
\* and NotAsked the maxLength of no call.
Chars == 1..NumChars

Names == UNION {[1..n -> Chars] : n \in 0..MaxLen}

NoName == <<0>>

NotAsked == 0 - 1

\* The command-line tool has been given no command.
\* manager, authority: certificateManager and g_certificateAuthority are set;
\* rootDir: gLocalConfig.rootDir is set; cmd, task, pc, err: the command, the
\* task of its pipeline that is running, and how the pipeline ended; the_csr_file
\* is the variable of command_full_certificate; dones is what the callback given
\* to main has been called with, and commands the number of commands given so
\* far; keySize is gLocalConfig.keySize and managerKeySize the keySize of the
\* certificateManager instance.  cache is _fullyQualifiedDomainNameCache of
\* the process; computed counts the computations of the host name, first is
\* the name the first of them gave, asked and result are the maxLength and the
\* result of the last call of get_fully_qualified_domain_name.
NoCommand ==
    [manager |-> FALSE, authority |-> FALSE, rootDir |-> FALSE,
     cmd |-> "none", task |-> 0, pc |-> "idle", err |-> "none",
     the_csr_file |-> <<>>, dones |-> <<>>, commands |-> 0,
     keySize |-> NotLoaded, managerKeySize |-> NoKeySize,
     cache |-> NoName, computed |-> 0, first |-> NoName,
     asked |-> NotAsked, result |-> NoName]

AllIdle == \A q \in Procs : proc[q].pc = "idle"

\* A call is recorded in the first free record of proc: which record holds an
\* operation makes no difference to it.
FreeSlot(p) ==
    /\ proc[p].pc = "idle"
    /\ \A q \in Procs : q < p => proc[q].pc # "idle"

\* The states a store can be found in at construction: a fresh root, or an
\* initialized one whose trusted/ and rejected/ hold disjoint sets of files.
Init ==
    /\ \E t0 \in SUBSET Thumbs : \E r0 \in SUBSET (Thumbs \ t0) :
          /\ files = [trusted |-> t0, rejected |-> r0]
          /\ own \in {[dirs |-> TRUE, config |-> TRUE, key |-> TRUE],
                      [dirs |-> (t0 \cup r0) # {}, config |-> FALSE, key |-> FALSE]}
    /\ thumbs = [rejected |-> {}, trusted |-> {}]
    /\ revoked = {}
    /\ proc = [p \in Procs |-> IdleProc]
    /\ lastMove = [c \in Certs |-> "none"]
    /\ lastStatus = NoStatus
    /\ issued = NothingIssued
    /\ cli = NoCommand

\* ---------------------------------------------------------------- callbacks
\* The operation's own callback is invoked with err (and status).
Done(r, err, status) ==
    [r EXCEPT !.pc = "done", !.err = err, !.status = status, !.callbacks = @ + 1]

\* IndexStatus without the test of line 392: only trusted/ is looked up.
IndexStatusTrustedOnly(idx, t) ==
    IF t \in idx.trusted THEN "trusted"
    ELSE "unknown"

\* IndexStatus with the tests of lines 392 and 395 exchanged: trusted wins.
IndexStatusTrustedFirst(idx, t) ==
    IF t \in idx.trusted THEN "trusted"
    ELSE IF t \in idx.rejected THEN "rejected"
    ELSE "unknown"

\* _getCertificateStatus, lines 392-398: the lookup in the index.
IndexStatus(idx, t) ==
    IF t \in idx.rejected THEN "rejected"
    ELSE IF t \in idx.trusted THEN "trusted"
    ELSE "unknown"

\* _moveCertificate, lines 412-431: the callback it gives getCertificateStatus.
MoveCallback(r, err, status) ==
    IF err # "none" THEN Done(r, err, "none")
    ELSE IF status # r.newStatus
         THEN [r EXCEPT !.pc = "rename", !.status = status]
         ELSE Done(r, "none", "none")

\* The callback of the public getCertificateStatus: the caller's, or
\* _moveCertificate's when trustCertificate / rejectCertificate made the call.
GetStatusReturn(r, err, status) ==
    IF r.kind = "move" THEN MoveCallback(r, err, status)
    ELSE Done(r, err, status)

\* GetStatusCallback without lines 117-131: "unknown" is returned as it is.
GetStatusCallbackNoWrite(r, status) ==
    GetStatusReturn([r EXCEPT !.lookup = status], "none", status)

\* getCertificateStatus, lines 113-133: an unknown certificate is written to
\* rejected/ (fs.writeFile is started), any other status is returned.
GetStatusCallback(r, status) ==
    IF status = "unknown"
    THEN [r EXCEPT !.pc = "write", !.lookup = status]
    ELSE GetStatusReturn([r EXCEPT !.lookup = status], "none", status)

\* verifyCertificate, lines 218-237: the revocation, issuer and URI steps.
RevocationSteps(r) == "none"

\* VerifyTrustStep with only the test of line 207: an unknown certificate passes.
VerifyTrustStepRejectedOnly(r, status) ==
    IF status = "rejected" THEN Done([r EXCEPT !.lookup = status], "BadCertificateUntrusted", "none")
    ELSE Done([r EXCEPT !.lookup = status], RevocationSteps(r), "none")

\* VerifyTrustStep on the result of the public getCertificateStatus, which
\* writes an unknown certificate to rejected/.
VerifyTrustStepPublicStatus(r, status) ==
    IF status = "unknown" THEN [r EXCEPT !.pc = "write", !.lookup = status]
    ELSE IF status = "trusted" THEN Done([r EXCEPT !.lookup = status], RevocationSteps(r), "none")
    ELSE Done([r EXCEPT !.lookup = status], "BadCertificateUntrusted", "none")

\* verifyCertificate, lines 200-215, and the rest of the series.
VerifyTrustStep(r, status) ==
    IF status = "rejected" THEN Done([r EXCEPT !.lookup = status], "BadCertificateUntrusted", "none")
    ELSE IF status = "trusted" THEN Done([r EXCEPT !.lookup = status], RevocationSteps(r), "none")
    ELSE Done([r EXCEPT !.lookup = status], "BadCertificateUntrusted", "none")

\* verifyCertificate, lines 176 and 188: the two date checks.
NotYetActive(notBefore, now) == notBefore > now

\* Expired with < for <=.
ExpiredStrict(notAfter, now) == notAfter < now

Expired(notAfter, now) == notAfter <= now

\* _getCertificateStatus, lines 383-388: _readCertificates starts its walk of trusted/.
StartLookup(r) ==
    [r EXCEPT !.pc = "walk", !.folder = "trusted", !.pending = {}, !.consulted = TRUE]

\* initialize's callback: getCertificateStatus (line 109) takes no error
\* argument and goes on to _getCertificateStatus; initialize's own caller gets err.
InitCallback(r, err) ==
    IF r.kind \in {"init", "construct"} THEN Done(r, err, "none")
    ELSE StartLookup(r)

\* MoveIndex without the delete of line 423.
MoveIndexNoDelete(idx, src, dest, t) ==
    [idx EXCEPT ![dest] = @ \cup {t}]

\* MoveIndex that empties the source set.
MoveIndexClearsSource(idx, src, dest, t) ==
    [[idx EXCEPT ![src] = {}] EXCEPT ![dest] = @ \cup {t}]

\* _moveCertificate, lines 423-424: the index update in fs.rename's callback.
MoveIndex(idx, src, dest, t) ==
    [[idx EXCEPT ![src] = @ \ {t}] EXCEPT ![dest] = @ \cup {t}]

\* ------------------------------------------------------------------ history
\* What a step of caller p adds to the history: the outcome of a trustCertificate
\* or rejectCertificate at the step in which its callback is invoked.
Observe(p) ==
    LET r == proc'[p]
        ends == proc[p].pc # "done" /\ r.pc = "done" /\ r.kind = "move"
    IN /\ UNCHANGED lastStatus
       /\ lastMove' =
                   IF ~ends THEN lastMove
                   ELSE IF r.err = "none" THEN [lastMove EXCEPT ![r.cert] = r.newStatus]
                   ELSE [lastMove EXCEPT ![r.cert] = IF @ = r.newStatus THEN @ ELSE "failed"]

\* A call other than getCertificateStatus of the same certificate ends the
\* pair of consecutive status queries that lastStatus is kept for.
ForgetStatus == lastStatus' = NoStatus

\* ------------------------------------------------------------------ actions
\* initialize, lines 257-265: the synchronous part, the mkdir calls; the
\* callback of ensure_openssl_installed is pending afterwards.
StartInitialize(r) == [r EXCEPT !.pc = "init_openssl"]

\* initialize(callback) called by the user.
CallInitialize(p) ==
    /\ proc[p].pc = "idle"
    /\ proc' = [proc EXCEPT ![p] = StartInitialize([IdleProc EXCEPT !.kind = "init"])]
    /\ own' = [own EXCEPT !.dirs = TRUE]
    /\ ForgetStatus
    /\ UNCHANGED <<files, thumbs, revoked, lastMove>>
    /\ UNCHANGED <<issued, cli>>

\* getCertificateStatus(certificate, callback) called by the user, line 109.
CallGetCertificateStatus(p, c) ==
    /\ proc[p].pc = "idle"
    /\ proc' = [proc EXCEPT ![p] =
                  StartInitialize([IdleProc EXCEPT !.kind = "status", !.cert = c,
                                     !.before = DirStatus(makeSHA1Thumbprint(c))])]
    /\ own' = [own EXCEPT !.dirs = TRUE]
    /\ lastStatus' = IF lastStatus.cert = c THEN lastStatus ELSE NoStatus
    /\ UNCHANGED <<files, thumbs, revoked, lastMove>>
    /\ UNCHANGED <<issued, cli>>

\* _moveCertificate, lines 409-412, entered from trustCertificate (newStatus
\* "trusted") or rejectCertificate ("rejected"): it calls getCertificateStatus.
MoveCertificate(p, c, newStatus) ==
    /\ proc[p].pc = "idle"
    /\ proc' = [proc EXCEPT ![p] =
                  StartInitialize([IdleProc EXCEPT !.kind = "move", !.cert = c,
                                     !.newStatus = newStatus,
                                     !.before = DirStatus(makeSHA1Thumbprint(c))])]
    /\ own' = [own EXCEPT !.dirs = TRUE]
    /\ lastMove' = [lastMove EXCEPT ![c] = IF @ = newStatus THEN @ ELSE "none"]
    /\ ForgetStatus
    /\ UNCHANGED <<files, thumbs, revoked>>
    /\ UNCHANGED <<issued, cli>>

CallTrustCertificate(p, c) == MoveCertificate(p, c, "trusted")

CallRejectCertificate(p, c) == MoveCertificate(p, c, "rejected")

\* InitWriteConfig without the fs.writeFileSync of line 273.
InitWriteConfigSkipped(p) ==
    /\ proc[p].pc = "init_openssl"
    /\ proc' = [proc EXCEPT ![p].pc = "init_exists"]
    /\ UNCHANGED <<files, own, thumbs, revoked, lastMove, lastStatus>>
    /\ UNCHANGED <<issued, cli>>

\* initialize, lines 265-275: ensure_openssl_installed calls back, the
\* configuration file is written and fs.exists(privateKey) is started.
InitWriteConfig(p) ==
    /\ proc[p].pc = "init_openssl"
    /\ own' = [own EXCEPT !.config = TRUE]
    /\ proc' = [proc EXCEPT ![p].pc = "init_exists"]
    /\ UNCHANGED <<files, thumbs, revoked, lastMove, lastStatus>>
    /\ UNCHANGED <<issued, cli>>

\* InitExists without the test of line 276: the key is always generated.
InitExistsAlways(p) ==
    /\ proc[p].pc = "init_exists"
    /\ proc' = [proc EXCEPT ![p].pc = "init_keygen"]
    /\ Observe(p)
    /\ UNCHANGED <<files, own, thumbs, revoked>>
    /\ UNCHANGED <<issued, cli>>

\* initialize, lines 275-286: the callback of fs.exists.
InitExists(p) ==
    /\ proc[p].pc = "init_exists"
    /\ proc' = [proc EXCEPT ![p] =
                  IF own.key THEN InitCallback(@, "none")
                  ELSE [@ EXCEPT !.pc = "init_keygen"]]
    /\ Observe(p)
    /\ UNCHANGED <<files, own, thumbs, revoked>>
    /\ UNCHANGED <<issued, cli>>

\* initialize, lines 279-281: createPrivateKey succeeds.
InitKeyGenerated(p) ==
    /\ proc[p].pc = "init_keygen"
    /\ own' = [own EXCEPT !.key = TRUE]
    /\ proc' = [proc EXCEPT ![p] = InitCallback([@ EXCEPT !.keygen = "generated"], "none")]
    /\ Observe(p)
    /\ UNCHANGED <<files, thumbs, revoked>>
    /\ UNCHANGED <<issued, cli>>

\* initialize, lines 279-281: createPrivateKey reports an error.
InitKeyFailed(p) ==
    /\ proc[p].pc = "init_keygen"
    /\ proc' = [proc EXCEPT ![p] =
                  InitCallback([@ EXCEPT !.keygen = "failed"], "KeyGenerationError")]
    /\ Observe(p)
    /\ UNCHANGED <<files, own, thumbs, revoked>>
    /\ UNCHANGED <<issued, cli>>

\* _readCertificates._f, line 444: the walker lists the folder.
WalkList(p) ==
    /\ proc[p].pc = "walk"
    /\ proc' = [proc EXCEPT ![p].pc = "walk_file", ![p].pending = files[proc[p].folder]]
    /\ UNCHANGED <<files, own, thumbs, revoked, lastMove, lastStatus>>
    /\ UNCHANGED <<issued, cli>>

\* _readCertificates._f, lines 446-452: the walker's "file" event, for the
\* files of the listing in the order of their names; the file is read and its
\* thumbprint is added to the folder's index.
WalkFile(p) ==
    /\ proc[p].pc = "walk_file"
    /\ \E f \in proc[p].pending :
          /\ \A g \in proc[p].pending : f <= g
          /\ f \in files[proc[p].folder]
          /\ thumbs' = [thumbs EXCEPT ![proc[p].folder] = @ \cup {f}]
          /\ proc' = [proc EXCEPT ![p].pending = @ \ {f}]
    /\ UNCHANGED <<files, own, revoked, lastMove, lastStatus>>
    /\ UNCHANGED <<issued, cli>>

\* _readCertificates, lines 453-455 and 458-462: the walk of trusted/ ends and
\* the series goes on to rejected/.
WalkEndTrusted(p) ==
    /\ proc[p].pc = "walk_file"
    /\ proc[p].pending = {}
    /\ proc[p].folder = "trusted"
    /\ proc' = [proc EXCEPT ![p].pc = "walk", ![p].folder = "rejected"]
    /\ UNCHANGED <<files, own, thumbs, revoked, lastMove, lastStatus>>
    /\ UNCHANGED <<issued, cli>>

\* _readCertificates, lines 453-455 and 467, then _getCertificateStatus, lines
\* 388-399, and its caller's callback, all in the walker's "end" event.
WalkEndRejected(p) ==
    /\ proc[p].pc = "walk_file"
    /\ proc[p].pending = {}
    /\ proc[p].folder = "rejected"
    /\ LET status == IndexStatus(thumbs, makeSHA1Thumbprint(proc[p].cert))
       IN proc' = [proc EXCEPT ![p] =
                     IF @.kind = "verify" THEN VerifyTrustStep(@, status)
                     ELSE GetStatusCallback(@, status)]
    /\ Observe(p)
    /\ UNCHANGED <<files, own, thumbs, revoked>>
    /\ UNCHANGED <<issued, cli>>

\* WriteDone with the file name of line 121 built in trusted/.
WriteDoneTrustedFolder(p) ==
    /\ proc[p].pc = "write"
    /\ files' = [files EXCEPT !.trusted = @ \cup {makeSHA1Thumbprint(proc[p].cert)}]
    /\ proc' = [proc EXCEPT ![p] = GetStatusReturn(@, "none", "rejected")]
    /\ Observe(p)
    /\ UNCHANGED <<own, thumbs, revoked>>
    /\ UNCHANGED <<issued, cli>>

\* getCertificateStatus, lines 123-129: fs.writeFile succeeded.
WriteDone(p) ==
    /\ proc[p].pc = "write"
    /\ files' = [files EXCEPT !.rejected = @ \cup {makeSHA1Thumbprint(proc[p].cert)}]
    /\ proc' = [proc EXCEPT ![p] = GetStatusReturn(@, "none", "rejected")]
    /\ Observe(p)
    /\ UNCHANGED <<own, thumbs, revoked>>
    /\ UNCHANGED <<issued, cli>>

\* getCertificateStatus, lines 123-126: fs.writeFile reports an error.
WriteFailed(p) ==
    /\ proc[p].pc = "write"
    /\ proc' = [proc EXCEPT ![p] = GetStatusReturn(@, "WriteError", "none")]
    /\ Observe(p)
    /\ UNCHANGED <<files, own, thumbs, revoked>>
    /\ UNCHANGED <<issued, cli>>

\* RenameDone with a copy in place of fs.rename: the source file stays.
RenameCopies(p) ==
    /\ proc[p].pc = "rename"
    /\ LET t == makeSHA1Thumbprint(proc[p].cert)
           src == proc[p].status
           dest == proc[p].newStatus
       IN /\ t \in files[src]
          /\ files' = [files EXCEPT ![dest] = @ \cup {t}]
          /\ thumbs' = MoveIndex(thumbs, src, dest, t)
    /\ proc' = [proc EXCEPT ![p] = Done(@, "none", "none")]
    /\ Observe(p)
    /\ UNCHANGED <<own, revoked>>
    /\ UNCHANGED <<issued, cli>>

\* RenameDone without the index update of lines 423-424.
RenameDoneKeepsIndex(p) ==
    /\ proc[p].pc = "rename"
    /\ LET t == makeSHA1Thumbprint(proc[p].cert)
       IN /\ t \in files[proc[p].status]
          /\ files' = MoveIndex(files, proc[p].status, proc[p].newStatus, t)
    /\ proc' = [proc EXCEPT ![p] = Done(@, "none", "none")]
    /\ Observe(p)
    /\ UNCHANGED <<own, revoked, thumbs>>
    /\ UNCHANGED <<issued, cli>>

\* _moveCertificate, lines 421-426: fs.rename moved the file.
RenameDone(p) ==
    /\ proc[p].pc = "rename"
    /\ LET t == makeSHA1Thumbprint(proc[p].cert)
           src == proc[p].status
           dest == proc[p].newStatus
       IN /\ t \in files[src]
          /\ files' = [[files EXCEPT ![src] = @ \ {t}] EXCEPT ![dest] = @ \cup {t}]
          /\ thumbs' = MoveIndex(thumbs, src, dest, t)
    /\ proc' = [proc EXCEPT ![p] = Done(@, "none", "none")]
    /\ Observe(p)
    /\ UNCHANGED <<own, revoked>>
    /\ UNCHANGED <<issued, cli>>

\* _moveCertificate, lines 421-426: fs.rename reports an error (the source file
\* is missing, or the file system refuses the move); the file stays where it is.
RenameFailed(p) ==
    /\ proc[p].pc = "rename"
    /\ LET t == makeSHA1Thumbprint(proc[p].cert)
       IN thumbs' = MoveIndex(thumbs, proc[p].status, proc[p].newStatus, t)
    /\ proc' = [proc EXCEPT ![p] = Done(@, "RenameError", "none")]
    /\ Observe(p)
    /\ UNCHANGED <<files, own, revoked>>
    /\ UNCHANGED <<issued, cli>>

\* The caller has received the result; it may make its next call.
Return(p) ==
    /\ proc[p].pc \in {"done", "thrown"}
    /\ proc' = [proc EXCEPT ![p] = IdleProc]
    /\ lastStatus' = IF proc[p].kind = "status" /\ proc[p].pc = "done" /\ proc[p].err = "none"
                      THEN [cert |-> proc[p].cert, status |-> proc[p].status,
                            wrote |-> proc[p].lookup = "unknown"]
                      ELSE NoStatus
    /\ UNCHANGED <<files, own, thumbs, revoked, lastMove>>
    /\ UNCHANGED <<issued, cli>>

\* exploreCertificateInfo, line 170, a function of node-opcua-crypto: the
\* validity window of a certificate; what it makes of a zero-length buffer is
\* not fixed by this repository: it throws, or returns some dates (here dates
\* before or after every time of the model, which takes the chain down each of
\* its paths).
ExploreCertificateInfo(c) ==
    IF c = Empty
    THEN {[throws |-> TRUE, notBefore |-> 0, notAfter |-> 0]}
         \cup {[throws |-> FALSE, notBefore |-> a, notAfter |-> b] :
                  a \in {0, MaxTime + 1}, b \in {0, MaxTime + 1}}
    ELSE {[throws |-> FALSE, notBefore |-> NotBefore(c), notAfter |-> NotAfter(c)]}

\* VerifyDateSteps without the second task, the test of line 188.
VerifyDateStepsNoExpiry(r) ==
    IF NotYetActive(r.notBefore, r.now) THEN Done(r, "BadCertificateTimeInvalid", "none")
    ELSE StartLookup(r)

\* verifyCertificate, lines 173-216: the series up to the call of
\* _getCertificateStatus; its first two tasks call back synchronously.
VerifyDateSteps(r) ==
    IF NotYetActive(r.notBefore, r.now) THEN Done(r, "BadCertificateTimeInvalid", "none")
    ELSE IF Expired(r.notAfter, r.now) THEN Done(r, "BadCertificateTimeInvalid", "none")
    ELSE StartLookup(r)

\* verifyCertificate, lines 160-163: the test for a missing certificate.
IsMissing(c) == c = Null

\* verifyCertificate(certificate, callback) called by the user at time now.
CallVerifyCertificate(p, c, now) ==
    /\ proc[p].pc = "idle"
    /\ LET r == [IdleProc EXCEPT !.kind = "verify", !.cert = c, !.now = now]
       IN IF IsMissing(c)
          THEN proc' = [proc EXCEPT ![p] = Done(r, "BadSecurityChecksFailed", "none")]
          ELSE \E info \in ExploreCertificateInfo(c) :
                  proc' = [proc EXCEPT ![p] =
                             IF info.throws THEN [r EXCEPT !.pc = "thrown"]
                             ELSE VerifyDateSteps([r EXCEPT !.notBefore = info.notBefore,
                                                            !.notAfter = info.notAfter])]
    /\ ForgetStatus
    /\ UNCHANGED <<files, own, thumbs, revoked, lastMove>>
    /\ UNCHANGED <<issued, cli>>

\* CertificateAuthority.revokeCertificate (called at part_000, line 462): the
\* certificate is entered in the authority's revocation record, for good.
RevokeCertificate(c) ==
    /\ c \notin revoked
    /\ revoked' = revoked \cup {c}
    /\ UNCHANGED <<files, own, thumbs, proc, lastMove, lastStatus>>
    /\ UNCHANGED <<issued, cli>>

\* ------------------------------------------------------------ specification
\* One caller after the other: a call is made when no operation is in flight.
Next ==
    \/ \E p \in Procs : AllIdle /\ FreeSlot(p) /\ CallInitialize(p)
    \/ \E p \in Procs, c \in Certs : AllIdle /\ FreeSlot(p) /\ CallGetCertificateStatus(p, c)
    \/ \E p \in Procs, c \in Certs : AllIdle /\ FreeSlot(p) /\ CallTrustCertificate(p, c)
    \/ \E p \in Procs, c \in Certs : AllIdle /\ FreeSlot(p) /\ CallRejectCertificate(p, c)
    \/ \E p \in Procs, c \in Certs \cup {Null, Empty}, now \in Times :
          AllIdle /\ FreeSlot(p) /\ CallVerifyCertificate(p, c, now)
    \/ \E p \in Procs : InitWriteConfig(p)
    \/ \E p \in Procs : InitExists(p)
    \/ \E p \in Procs : InitKeyGenerated(p)
    \/ \E p \in Procs : InitKeyFailed(p)
    \/ \E p \in Procs : WalkList(p)
    \/ \E p \in Procs : WalkFile(p)
    \/ \E p \in Procs : WalkEndTrusted(p)
    \/ \E p \in Procs : WalkEndRejected(p)
    \/ \E p \in Procs : WriteDone(p)
    \/ \E p \in Procs : WriteFailed(p)
    \/ \E p \in Procs : RenameDone(p)
    \/ \E p \in Procs : RenameFailed(p)
    \/ \E p \in Procs : Return(p)

Spec == Init /\ [][Next]_vars

\* The same callers, and an administrator of the certificate authority who
\* revokes certificates between their calls.
NextCA ==
    \/ Next
    \/ \E c \in Certs : AllIdle /\ RevokeCertificate(c)

SpecCA == Init /\ [][NextCA]_vars

\* _moveCertificate, lines 421-426: fs.rename reports that the source file does
\* not exist (ENOENT).
RenameMissing(p) ==
    /\ proc[p].pc = "rename"
    /\ makeSHA1Thumbprint(proc[p].cert) \notin files[proc[p].status]
    /\ RenameFailed(p)

\* _readCertificates.readThumbprint, line 436, in the walker's "file" event: the
\* file of the listing is no longer in the folder and readCertificate throws;
\* nothing catches the exception and the process ends.
WalkFileThrows(p) ==
    /\ proc[p].pc = "walk_file"
    /\ \E f \in proc[p].pending :
          /\ \A g \in proc[p].pending : f <= g
          /\ f \notin files[proc[p].folder]
    /\ proc' = [proc EXCEPT ![p].pc = "crashed"]
    /\ UNCHANGED <<files, own, thumbs, revoked, lastMove, lastStatus>>
    /\ UNCHANGED <<issued, cli>>

\* The process is running: no uncaught exception has ended it.
Alive == \A q \in Procs : proc[q].pc # "crashed"

\* Callers that do not wait for each other: a call is made whatever is in
\* flight, and the callbacks of the operations interleave.  The file system and
\* the key generation do not fail by themselves here: fs.rename fails only when
\* its source file is missing, so that an error is never the environment's.
NextRace ==
    \/ \E p \in Procs : Alive /\ FreeSlot(p) /\ CallInitialize(p)
    \/ \E p \in Procs, c \in Certs : Alive /\ FreeSlot(p) /\ CallGetCertificateStatus(p, c)
    \/ \E p \in Procs, c \in Certs : Alive /\ FreeSlot(p) /\ CallTrustCertificate(p, c)
    \/ \E p \in Procs, c \in Certs : Alive /\ FreeSlot(p) /\ CallRejectCertificate(p, c)
    \/ \E p \in Procs : Alive /\ InitWriteConfig(p)
    \/ \E p \in Procs : Alive /\ InitExists(p)
    \/ \E p \in Procs : Alive /\ InitKeyGenerated(p)
    \/ \E p \in Procs : Alive /\ WalkList(p)
    \/ \E p \in Procs : Alive /\ WalkFile(p)
    \/ \E p \in Procs : Alive /\ WalkFileThrows(p)
    \/ \E p \in Procs : Alive /\ WalkEndTrusted(p)
    \/ \E p \in Procs : Alive /\ WalkEndRejected(p)
    \/ \E p \in Procs : Alive /\ WriteDone(p)
    \/ \E p \in Procs : Alive /\ RenameDone(p)
    \/ \E p \in Procs : Alive /\ RenameMissing(p)
    \/ \E p \in Procs : Alive /\ Return(p)

SpecRace == Init /\ [][NextRace]_vars

\* ------------------------------------------------------------- shared root
\* A second CertificateManager on the same root, between the calls of the
\* first: its getCertificateStatus writes rejected/<thumbprint>.pem (lines
\* 120-123; the scan it decided on may be older than the file's move to
\* trusted/), and its trustCertificate and rejectCertificate rename the file
\* (lines 418-421).  Its own index is not the first manager's.
OtherManagerWrites(c) ==
    /\ makeSHA1Thumbprint(c) \notin files.rejected
    /\ files' = [files EXCEPT !.rejected = @ \cup {makeSHA1Thumbprint(c)}]
    /\ ForgetStatus
    /\ lastMove' = [lastMove EXCEPT ![c] = "none"]
    /\ UNCHANGED <<own, thumbs, revoked, proc, issued, cli>>

OtherManagerMoves(c, src, dest) ==
    /\ src # dest
    /\ makeSHA1Thumbprint(c) \in files[src]
    /\ files' = MoveIndex(files, src, dest, makeSHA1Thumbprint(c))
    /\ ForgetStatus
    /\ lastMove' = [lastMove EXCEPT ![c] = "none"]
    /\ UNCHANGED <<own, thumbs, revoked, proc, issued, cli>>

\* One caller after the other on the first manager, and the second manager
\* between its calls.
NextShared ==
    \/ \E p \in Procs, c \in Certs : AllIdle /\ FreeSlot(p) /\ CallGetCertificateStatus(p, c)
    \/ \E p \in Procs, c \in Certs : AllIdle /\ FreeSlot(p) /\ CallTrustCertificate(p, c)
    \/ \E p \in Procs, c \in Certs : AllIdle /\ FreeSlot(p) /\ CallRejectCertificate(p, c)
    \/ \E p \in Procs, c \in Certs, now \in Times :
          AllIdle /\ FreeSlot(p) /\ CallVerifyCertificate(p, c, now)
    \/ \E c \in Certs : AllIdle /\ OtherManagerWrites(c)
    \/ \E c \in Certs, src \in Folders, dest \in Folders :
          AllIdle /\ OtherManagerMoves(c, src, dest)
    \/ \E p \in Procs : InitWriteConfig(p)
    \/ \E p \in Procs : InitExists(p)
    \/ \E p \in Procs : InitKeyGenerated(p)
    \/ \E p \in Procs : WalkList(p)
    \/ \E p \in Procs : WalkFile(p)
    \/ \E p \in Procs : WalkEndTrusted(p)
    \/ \E p \in Procs : WalkEndRejected(p)
    \/ \E p \in Procs : WriteDone(p)
    \/ \E p \in Procs : WriteFailed(p)
    \/ \E p \in Procs : RenameDone(p)
    \/ \E p \in Procs : RenameFailed(p)
    \/ \E p \in Procs : Return(p)

SpecShared == Init /\ [][NextShared]_vars

\* ---------------------------------------------------------------- host name
Min(a, b) == IF a < b THEN a ELSE b

\* trim, hostname.ts lines 3-8.
trim(str, length) ==
    IF length = 0 THEN str
    ELSE SubSeq(str, 1, Min(Len(str), length))

\* get_fully_qualified_domain_name, line 16: if (_fullyQualifiedDomainNameCache);
\* null and the empty string are both falsy.
IsCached(cache) == cache # NoName /\ cache # <<>>

\* What require("fqdn")() does on a platform other than win32: it gives a
\* name, gives one that holds "sethostname", or throws.
FqdnOutcomes == {"name", "sethostname", "throws"}

\* What the platform gives at one computation of the name.  On win32 fq is
\* COMPUTERNAME, one character here, and hn the domain with its dot; elsewhere
\* fq is the result of fqdn() when it gives a name, and hn is hostname(), read
\* only when it does not.
Platforms ==
    {[win32 |-> TRUE, outcome |-> "name", fq |-> f, hn |-> h] :
        f \in {n \in Names : Len(n) = 1}, h \in {n \in Names : Len(n) < MaxLen}}
    \cup {[win32 |-> FALSE, outcome |-> "name", fq |-> f, hn |-> <<>>] : f \in Names}
    \cup {[win32 |-> FALSE, outcome |-> o, fq |-> <<>>, hn |-> h] :
        o \in FqdnOutcomes \ {"name"}, h \in Names}

\* get_fully_qualified_domain_name, lines 20-42: on win32 COMPUTERNAME with
\* the domain, a string that is never empty; elsewhere the result of fqdn(),
\* or hostname() when fqdn() throws or gives a name that holds "sethostname".
ComputedName(win32, outcome, fq, hn) ==
    IF win32 THEN fq \o hn
    ELSE IF outcome = "name" THEN fq
    ELSE hn

\* get_fully_qualified_domain_name(maxLength), lines 12-44; maxLength 0 is
\* also the call without maxLength (line 14).
GetFullyQualifiedDomainName(maxLength) ==
    /\ IF IsCached(cli.cache)
       THEN cli' = [cli EXCEPT !.asked = maxLength,
                               !.result = trim(cli.cache, maxLength)]
       ELSE /\ cli.computed < MaxComputed
            /\ \E p \in Platforms :
                  LET name == ComputedName(p.win32, p.outcome, p.fq, p.hn)
                  IN cli' = [cli EXCEPT !.cache = name,
                                        !.computed = @ + 1,
                                        !.first = IF @ = NoName THEN name ELSE @,
                                        !.asked = maxLength,
                                        !.result = trim(name, maxLength)]
    /\ UNCHANGED <<files, own, thumbs, revoked, proc, lastMove, lastStatus, issued>>

\* The calls of one process, with every maxLength up to one more than the
\* longest name.
NextHost == \E maxLength \in 0..(MaxLen + 1) : GetFullyQualifiedDomainName(maxLength)

SpecHost == Init /\ [][NextHost]_vars

\* --------------------------------------------------- requests, certificates
\* The clock read by new Date() advances.
Tick ==
    /\ issued.now < MaxTime
    /\ issued' = [issued EXCEPT !.now = @ + 1]
    /\ UNCHANGED <<files, own, thumbs, revoked, proc, lastMove, lastStatus, cli>>

\* now.toISOString().slice(0, 10), line 358: the day of a time in
\* milliseconds.
MsPerDay == 86400000

\* createCertificateRequest, lines 357-361: the file name of the request,
\* "certificate_" + day + "_" + now.getTime() + ".csr".
CsrName(now) == <<now \div MsPerDay, now>>

\* createCertificateRequest, lines 345-351 with the test of line 345 only.
PresetErrorRootDirOnly(params) ==
    IF params.rootDir THEN "Error" ELSE "none"

\* createCertificateRequest, lines 345-351: the throw and the assertions on the
\* fields the manager sets itself.
PresetError(params) ==
    IF params.rootDir THEN "Error"
    ELSE IF params.configFile \/ params.privateKey THEN "AssertionError"
    ELSE "none"

\* The assignments without effect: params is left as the caller passed it.
ManagerFieldsNotSet(params) == params

\* createSelfSignedCertificate, lines 331-333, and createCertificateRequest,
\* lines 352-354: rootDir, configFile and privateKey of the caller's params are
\* set to the manager's.
ManagerFields(params) ==
    [params EXCEPT !.rootDir = TRUE, !.configFile = TRUE, !.privateKey = TRUE]

\* createCertificateRequest, lines 338-364: the call, up to the call of
\* createCertificateSigningRequest.
CallCreateCertificateRequest(p, params) ==
    /\ proc[p].pc = "idle"
    /\ LET err == PresetError(params)
           name == CsrName(issued.now)
           r == [IdleProc EXCEPT !.kind = "csr", !.params = params]
       IN IF err # "none"
          THEN /\ proc' = [proc EXCEPT ![p] = [r EXCEPT !.pc = "thrown", !.err = err,
                                                         !.left = params]]
               /\ UNCHANGED issued
          ELSE /\ proc' = [proc EXCEPT ![p] =
                             [r EXCEPT !.pc = "csr_toolchain", !.csr = name,
                                       !.toolchain = TRUE,
                                       !.left = ManagerFields(params),
                                       !.composedBefore = name \in issued.composed]]
               /\ issued' = [issued EXCEPT !.composed = @ \cup {name}]
    /\ ForgetStatus
    /\ UNCHANGED <<files, own, thumbs, revoked, lastMove, cli>>

\* createCertificateRequest, lines 364-369: createCertificateSigningRequest has
\* written the request and the callback gets the file name.
CsrDone(p) ==
    /\ proc[p].pc = "csr_toolchain"
    /\ issued' = [issued EXCEPT !.csr = @ \cup {proc[p].csr}]
    /\ proc' = [proc EXCEPT ![p] = Done(@, "none", "none")]
    /\ UNCHANGED <<files, own, thumbs, revoked, lastMove, lastStatus, cli>>

\* createCertificateRequest, lines 364-369: createCertificateSigningRequest
\* reports an error.
CsrFailed(p) ==
    /\ proc[p].pc = "csr_toolchain"
    /\ proc' = [proc EXCEPT ![p] = Done(@, "ToolchainError", "none")]
    /\ UNCHANGED <<files, own, thumbs, revoked, lastMove, lastStatus, issued, cli>>

\* createSelfSignedCertificate without lines 324-326: the key is not looked for.
PrivateKeyNotChecked(key) == TRUE

\* createSelfSignedCertificate, lines 324-326: fs.existsSync(self.privateKey).
PrivateKeyFound(key) == key

\* createSelfSignedCertificate, lines 328-329: the file of the certificate.
CertificateFilename(params) ==
    IF params.outputFile # Null THEN params.outputFile ELSE SelfSignedCertificatePath

\* createSelfSignedCertificate, lines 317-335: the call, up to the call of
\* createSelfSignCertificate.
CallCreateSelfSignedCertificate(p, params) ==
    /\ proc[p].pc = "idle"
    /\ LET r == [IdleProc EXCEPT !.kind = "selfsigned", !.params = params,
                                 !.left = params]
       IN proc' = [proc EXCEPT ![p] =
                     IF ~params.applicationUri
                     THEN [r EXCEPT !.pc = "thrown", !.err = "AssertionError"]
                     ELSE IF ~PrivateKeyFound(own.key)
                     THEN Done(r, "CannotFindPrivateKey", "none")
                     ELSE [r EXCEPT !.pc = "selfsigned_toolchain", !.toolchain = TRUE,
                                    !.left = ManagerFields(params),
                                    !.output = CertificateFilename(params)]]
    /\ ForgetStatus
    /\ UNCHANGED <<files, own, thumbs, revoked, lastMove, issued, cli>>

\* createSelfSignedCertificate, line 335: createSelfSignCertificate has written
\* the certificate.
SelfSignedDone(p) ==
    /\ proc[p].pc = "selfsigned_toolchain"
    /\ issued' = [issued EXCEPT !.certs = @ \cup {proc[p].output}]
    /\ proc' = [proc EXCEPT ![p] = Done(@, "none", "none")]
    /\ UNCHANGED <<files, own, thumbs, revoked, lastMove, lastStatus, cli>>

\* createSelfSignedCertificate, line 335: createSelfSignCertificate reports an
\* error.
SelfSignedFailed(p) ==
    /\ proc[p].pc = "selfsigned_toolchain"
    /\ proc' = [proc EXCEPT ![p] = Done(@, "ToolchainError", "none")]
    /\ UNCHANGED <<files, own, thumbs, revoked, lastMove, lastStatus, issued, cli>>

\* The trust store plays no part in these operations: the manager starts with
\* empty trusted/ and rejected/, on a fresh root or an initialized one.
InitOwn == Init /\ files = [trusted |-> {}, rejected |-> {}]

\* -------------------------------------------------------- command-line tool
Commands == {"createCA", "createPKI", "certificate", "selfSigned", "revoke", "demo"}

\* The tasks each command gives to async.series, the tasks of a nested series
\* in the place of the task that runs it; "display" is one of displayChapter,
\* displayTitle, displaySubtitle.  The demo is the one without --clean and
\* --dev, with the tasks of createDefaultCertificate for one application and
\* one key length of the fifteen.
Tasks(cmd) ==
    CASE cmd = "createCA" ->
           <<"ensure_openssl_installed", "readConfiguration",
             "construct_CertificateAuthority">>
      [] cmd = "createPKI" ->
           <<"readConfiguration", "construct_CertificateManager">>
      [] cmd = "certificate" ->
           <<"readConfiguration", "construct_CertificateManager",
             "construct_CertificateAuthority", "assertCAFolder",
             "createCertificateRequest", "signCertificateRequest", "copyOutput">>
      [] cmd = "selfSigned" ->
           <<"readConfiguration", "construct_CertificateManager", "display",
             "createSelfSignedCertificate">>
      [] cmd = "revoke" ->
           <<"readConfiguration", "construct_CertificateAuthority",
             "revoke_certificate">>
      [] cmd = "demo" ->
           <<"ensure_openssl_installed", "display", "display", "readConfiguration",
             "display", "construct_CertificateAuthority",
             "construct_CertificateManager", "display", "display",
             "createPrivateKeyIfNotExist", "display", "getPublicKeyFromPrivateKey",
             "display", "createCertificate", "display",
             "createSelfSignedCertificateCA">>

\* The tasks that do their work and call back at once, without error.
SimpleTasks ==
    {"ensure_openssl_installed", "display", "assertCAFolder"}

\* The tasks that are one call of the crypto toolchain or of the authority.
ToolchainTasks == {"getPublicKeyFromPrivateKey", "createSelfSignedCertificateCA"}

\* The task of the pipeline that is running.
TaskName == IF cli.pc = "idle" THEN "none" ELSE Tasks(cli.cmd)[cli.task]

\* on_completion, lines 372-378, calls done(); the final callback of
\* revokeCertificateFromCommandLine, lines 953-961, calls done(err).
DoneArgument(cmd, err) == IF cmd = "revoke" THEN err ELSE "none"

\* The final callback of the command's async.series.
Complete(c, err) ==
    [c EXCEPT !.pc = "completed", !.err = err,
              !.dones = Append(@, DoneArgument(c.cmd, err))]

\* SeriesCallback that runs the next task after an error too.
SeriesCallbackIgnoresError(c, err) ==
    IF c.task = Len(Tasks(c.cmd)) THEN Complete(c, err)
    ELSE [c EXCEPT !.task = @ + 1, !.pc = "task"]

\* The callback async.series gives a task: an error ends the series with it,
\* otherwise the next task is run, or the series ends after the last one.
SeriesCallback(c, err) ==
    IF err # "none" THEN Complete(c, err)
    ELSE IF c.task = Len(Tasks(c.cmd)) THEN Complete(c, "none")
    ELSE [c EXCEPT !.task = @ + 1, !.pc = "task"]

\* main, lines 1078-1104, and the command's function: the pipeline is started,
\* and done() is called when the parsing returns.
Main(cmd) ==
    /\ cli.pc \in {"idle", "completed"}
    /\ cli.commands < MaxCommands
    /\ AllIdle
    /\ cli' = [cli EXCEPT !.cmd = cmd, !.task = 1, !.pc = "task", !.err = "none",
                          !.the_csr_file = <<>>, !.dones = <<"none">>,
                          !.commands = @ + 1]
    /\ UNCHANGED <<files, own, thumbs, revoked, proc, lastMove, lastStatus, issued>>

\* The tool is run again, in a new process, on the same folders.
Restart ==
    /\ cli.pc \in {"completed", "thrown"}
    /\ AllIdle
    /\ cli' = [NoCommand EXCEPT !.commands = cli.commands]
    /\ thumbs' = [rejected |-> {}, trusted |-> {}]
    /\ UNCHANGED <<files, own, revoked, proc, lastMove, lastStatus, issued>>

\* A task that calls back at once.
SimpleTask ==
    /\ cli.pc = "task"
    /\ TaskName \in SimpleTasks
    /\ cli' = SeriesCallback(cli, "none")
    /\ UNCHANGED <<files, own, thumbs, revoked, proc, lastMove, lastStatus, issued>>

\* createCA and createPKI have the option --keySize, with the default 2048
\* (lines 359-366, 723, 752); the other commands have no such option.
ArgvKeySizes(cmd) ==
    IF cmd \in {"createCA", "createPKI"} THEN {NoKeySize, OtherKeySize, 2048}
    ELSE {NoKeySize}

\* What config.js of the certificate folder can say of keySize.
ConfigKeySizes == {NoKeySize, OtherKeySize, 2048}

\* readConfiguration, lines 289-293: the test of argv.keySize.
KeySizeRejected(argv) == argv # NoKeySize /\ argv \notin KeySizes

\* readConfiguration, lines 289-295: gLocalConfig.keySize after the test.
ConfiguredKeySize(argv, loaded) == IF argv # NoKeySize THEN argv ELSE loaded

\* readConfiguration, lines 170-304: gLocalConfig is the object that
\* require(config.js) gives, the same one for every call in a process
\* (line 245); an invalid --keySize is thrown (line 292), otherwise the task
\* calls back.
ReadConfiguration ==
    /\ cli.pc = "task"
    /\ TaskName = "readConfiguration"
    /\ \E argv \in ArgvKeySizes(cli.cmd), k \in ConfigKeySizes :
          LET loaded == IF cli.keySize = NotLoaded THEN k ELSE cli.keySize
          IN cli' = IF KeySizeRejected(argv)
                    THEN [cli EXCEPT !.pc = "thrown", !.keySize = loaded]
                    ELSE SeriesCallback([cli EXCEPT !.keySize =
                                            ConfiguredKeySize(argv, loaded)], "none")
    /\ UNCHANGED <<files, own, thumbs, revoked, proc, lastMove, lastStatus, issued>>

\* A task that is one call of the toolchain: the call is made.
ToolchainTask ==
    /\ cli.pc = "task"
    /\ TaskName \in ToolchainTasks
    /\ cli' = [cli EXCEPT !.pc = "toolchain"]
    /\ UNCHANGED <<files, own, thumbs, revoked, proc, lastMove, lastStatus, issued>>

\* The toolchain calls back, with an error or without.
ToolchainTaskCallback(err) ==
    /\ cli.pc = "toolchain"
    /\ TaskName \in ToolchainTasks
    /\ cli' = SeriesCallback(cli, err)
    /\ UNCHANGED <<files, own, thumbs, revoked, proc, lastMove, lastStatus, issued>>

\* construct_CertificateManager, line 134: if (!certificateManager).
ManagerIsMissing(c) == ~c.manager

\* CertificateManager.constructor, certificate_manager.ts line 67:
\* options.keySize = options.keySize || 2048.
ManagerKeySize(keySize) == IF keySize = NoKeySize THEN 2048 ELSE keySize

\* construct_CertificateManager, lines 129-143: the first call makes the
\* instance and calls its initialize with the task's callback; a later call
\* calls back at once.
ConstructCertificateManager(p) ==
    /\ cli.pc = "task"
    /\ TaskName = "construct_CertificateManager"
    /\ AllIdle /\ FreeSlot(p)
    /\ IF ManagerIsMissing(cli)
       THEN /\ cli' = [cli EXCEPT !.manager = TRUE,
                                  !.managerKeySize = ManagerKeySize(cli.keySize)]
            /\ proc' = [proc EXCEPT ![p] =
                          StartInitialize([IdleProc EXCEPT !.kind = "construct"])]
            /\ own' = [own EXCEPT !.dirs = TRUE]
       ELSE /\ cli' = SeriesCallback(cli, "none")
            /\ UNCHANGED <<proc, own>>
    /\ UNCHANGED <<files, thumbs, revoked, lastMove, lastStatus, issued>>

\* construct_CertificateAuthority, lines 101-118: a configuration without a
\* key size fails the assertion of line 107; otherwise the first call makes
\* the instance and calls its initialize, and a later call calls back at once.
ConstructCertificateAuthority ==
    /\ cli.pc = "task"
    /\ TaskName = "construct_CertificateAuthority"
    /\ cli' = IF cli.keySize = NoKeySize THEN [cli EXCEPT !.pc = "thrown"]
              ELSE IF ~cli.authority
              THEN [cli EXCEPT !.authority = TRUE, !.pc = "ca_initialize"]
              ELSE SeriesCallback(cli, "none")
    /\ UNCHANGED <<files, own, thumbs, revoked, proc, lastMove, lastStatus, issued>>

\* CertificateAuthority.initialize calls back: the authority's folder is
\* initialized, or the initialization failed.
CaInitializeCallback(err) ==
    /\ cli.pc = "ca_initialize"
    /\ issued' = [issued EXCEPT !.caKey = @ \/ err = "none"]
    /\ cli' = SeriesCallback(cli, err)
    /\ UNCHANGED <<files, own, thumbs, revoked, proc, lastMove, lastStatus>>

\* gLocalConfig as the tasks pass it to the manager: privateKey is cleared
\* (line 828), rootDir and configFile are what an earlier call has left in it
\* (certificate_manager.ts lines 331-332 and 352-353), outputFile is set.
LocalConfig(c, out) ==
    [NoParams EXCEPT !.rootDir = c.rootDir, !.configFile = c.rootDir,
                     !.outputFile = out]

\* command_full_certificate, lines 826-839: the task calls
\* certificateManager.createCertificateRequest(gLocalConfig, ...).
TaskCreateCertificateRequest(p) ==
    /\ cli.pc = "task"
    /\ TaskName = "createCertificateRequest"
    /\ AllIdle /\ FreeSlot(p)
    /\ CallCreateCertificateRequest(p, LocalConfig(cli, Null))

\* command_selfsigned_certificate, lines 796-802: the task calls
\* certificateManager.createSelfSignedCertificate(gLocalConfig, ...).
TaskCreateSelfSignedCertificate(p) ==
    /\ cli.pc = "task"
    /\ TaskName = "createSelfSignedCertificate"
    /\ AllIdle /\ FreeSlot(p)
    /\ \E out \in Paths : CallCreateSelfSignedCertificate(p, LocalConfig(cli, out))

\* The callback of lines 830-838 without its test of err.
CsrCallbackDropsError(c, r) ==
    SeriesCallback([c EXCEPT !.the_csr_file = r.csr], "none")

\* command_full_certificate, lines 830-838: the callback given to
\* createCertificateRequest.
CsrCallback(c, r) ==
    IF r.err # "none" THEN SeriesCallback(c, r.err)
    ELSE SeriesCallback([c EXCEPT !.the_csr_file = r.csr], "none")

\* The manager calls the task back: initialize (lines 139), the request
\* (lines 830-838) or the self-signed certificate (lines 799-801).
TaskReturn(p) ==
    /\ cli.pc = "task"
    /\ proc[p].pc = "done"
    /\ proc[p].kind \in {"construct", "csr", "selfsigned"}
    /\ cli' = [(IF proc[p].kind = "csr" THEN CsrCallback(cli, proc[p])
                ELSE SeriesCallback(cli, proc[p].err))
               EXCEPT !.rootDir = @ \/ proc[p].toolchain]
    /\ proc' = [proc EXCEPT ![p] = IdleProc]
    /\ UNCHANGED <<files, own, thumbs, revoked, lastMove, lastStatus, issued>>

\* The manager throws in the task: nothing catches the exception, the pipeline
\* goes no further and its final callback is not called.
TaskThrows(p) ==
    /\ cli.pc = "task"
    /\ proc[p].pc = "thrown"
    /\ cli' = [cli EXCEPT !.pc = "thrown"]
    /\ proc' = [proc EXCEPT ![p] = IdleProc]
    /\ UNCHANGED <<files, own, thumbs, revoked, lastMove, lastStatus, issued>>

\* CertificateAuthority.signCertificateRequest: an output file that exists is
\* refused with DuplicateOutput and nothing is written; otherwise the result is
\* the toolchain's.
SignResult(exists, toolchain) ==
    IF exists THEN "DuplicateOutput" ELSE toolchain

\* command_full_certificate, line 844: fs.existsSync(certificate), the file
\* named as the request with .pem for .csr.
CertificateExists(certificate) == \E x \in issued.signed : x[1] = certificate

\* command_full_certificate, lines 840-855: the task throws if the certificate
\* exists, and calls g_certificateAuthority.signCertificateRequest otherwise.
TaskSignCertificateRequest(toolchain) ==
    /\ cli.pc = "task"
    /\ TaskName = "signCertificateRequest"
    /\ LET certificate == cli.the_csr_file
           err == SignResult(CertificateExists(certificate), toolchain)
       IN IF CertificateExists(certificate)
          THEN /\ cli' = [cli EXCEPT !.pc = "thrown"]
               /\ UNCHANGED issued
          ELSE /\ cli' = SeriesCallback(cli, err)
               /\ issued' = IF err # "none" THEN issued
                             ELSE [issued EXCEPT !.serial = @ + 1,
                                      !.signed = @ \cup {<<certificate, issued.serial + 1>>}]
    /\ UNCHANGED <<files, own, thumbs, revoked, proc, lastMove, lastStatus>>

\* What the certificate file holds.
Content(signed, certificate) ==
    IF \E x \in signed : x[1] = certificate
    THEN (CHOOSE x \in signed : x[1] = certificate)[2]
    ELSE Absent

\* The copy of line 862 with its two files exchanged: the output file is
\* copied to the certificate.
CopyOutputSwapped(st, certificate) ==
    [st EXCEPT !.signed = {x \in @ : x[1] # certificate} \cup {<<certificate, st.output>>}]

\* command_full_certificate, line 862: fs.writeFileSync(outputFile,
\* fs.readFileSync(certificate)).
CopyOutput(st, certificate) ==
    [st EXCEPT !.output = Content(st.signed, certificate)]

\* command_full_certificate, lines 857-864: the signed certificate is copied to
\* the output file; fs.readFileSync throws when there is no certificate.
TaskCopyOutput ==
    /\ cli.pc = "task"
    /\ TaskName = "copyOutput"
    /\ IF CertificateExists(cli.the_csr_file)
       THEN /\ issued' = CopyOutput(issued, cli.the_csr_file)
            /\ cli' = SeriesCallback(cli, "none")
       ELSE /\ cli' = [cli EXCEPT !.pc = "thrown"]
            /\ UNCHANGED issued
    /\ UNCHANGED <<files, own, thumbs, revoked, proc, lastMove, lastStatus>>

\* revoke_certificate, lines 935-937: the authority revokes the certificate
\* file named on the command line, or reports an error.
TaskRevokeCertificate(err) ==
    /\ cli.pc = "task"
    /\ TaskName = "revoke_certificate"
    /\ cli' = SeriesCallback(cli, err)
    /\ UNCHANGED <<files, own, thumbs, revoked, proc, lastMove, lastStatus, issued>>

\* createPrivateKeyIfNotExist, lines 465-483: the callback of fs.exists.
DemoKeyExists ==
    /\ cli.pc = "task"
    /\ TaskName = "createPrivateKeyIfNotExist"
    /\ cli' = IF issued.demoKey THEN SeriesCallback(cli, "none")
              ELSE [cli EXCEPT !.pc = "demo_keygen"]
    /\ UNCHANGED <<files, own, thumbs, revoked, proc, lastMove, lastStatus, issued>>

\* createPrivateKeyIfNotExist, line 479: createPrivateKey calls back.
DemoKeyCallback(err) ==
    /\ cli.pc = "demo_keygen"
    /\ issued' = [issued EXCEPT !.demoKey = (err = "none")]
    /\ cli' = SeriesCallback(cli, err)
    /\ UNCHANGED <<files, own, thumbs, revoked, proc, lastMove, lastStatus>>

\* createCertificate, line 416: crs_file = certificate + ".csr".
crs_file(certificate) == "client_cert_1024.pem.csr"

\* createCertificate, lines 408-427: createCertificateSigningRequest is called.
DemoCreateCertificate ==
    /\ cli.pc = "task"
    /\ TaskName = "createCertificate"
    /\ cli' = [cli EXCEPT !.pc = "demo_csr"]
    /\ UNCHANGED <<files, own, thumbs, revoked, proc, lastMove, lastStatus, issued>>

\* createCertificate, lines 427-440: the callback of
\* createCertificateSigningRequest; after a request written without error,
\* g_certificateAuthority.signCertificateRequest is called.
DemoCsrCallback(err) ==
    /\ cli.pc = "demo_csr"
    /\ IF err # "none"
       THEN /\ cli' = SeriesCallback(cli, err)
            /\ UNCHANGED issued
       ELSE /\ cli' = [cli EXCEPT !.pc = "demo_sign"]
            /\ issued' = [issued EXCEPT !.demo[crs_file(certificate_file)] = Request]
    /\ UNCHANGED <<files, own, thumbs, revoked, proc, lastMove, lastStatus>>

\* createCertificate, lines 432-438: signCertificateRequest calls the task back.
DemoSignCallback(toolchain) ==
    /\ cli.pc = "demo_sign"
    /\ LET err == SignResult(issued.demo[certificate_file] # Absent, toolchain)
       IN /\ cli' = SeriesCallback(cli, err)
          /\ issued' = IF err # "none" THEN issued
                        ELSE [issued EXCEPT !.serial = @ + 1,
                                            !.demo[certificate_file] = issued.serial + 1]
    /\ UNCHANGED <<files, own, thumbs, revoked, proc, lastMove, lastStatus>>

\* The errors a call of the toolchain or of the authority can report.
Outcomes == {"none", "ToolchainError"}

\* The tool is given commands one after the other, in one process or in a new
\* one, and the clock advances; before the first command an application
\* verifies certificates with the manager.
NextCLI ==
    \/ Tick
    \/ \E p \in Procs, c \in Certs \cup {Null, Empty}, now \in Times :
          /\ AllIdle /\ FreeSlot(p)
          /\ cli.pc = "idle" /\ cli.commands = 0
          /\ CallVerifyCertificate(p, c, now)
    \/ \E p \in Procs : WalkList(p)
    \/ \E p \in Procs : WalkFile(p)
    \/ \E p \in Procs : WalkEndTrusted(p)
    \/ \E p \in Procs : WalkEndRejected(p)
    \/ \E p \in Procs : cli.pc = "idle" /\ Return(p)
    \/ \E cmd \in Commands : Main(cmd)
    \/ Restart
    \/ SimpleTask
    \/ ReadConfiguration
    \/ ToolchainTask
    \/ \E err \in Outcomes : ToolchainTaskCallback(err)
    \/ \E p \in Procs : ConstructCertificateManager(p)
    \/ \E p \in Procs : InitWriteConfig(p)
    \/ \E p \in Procs : InitExists(p)
    \/ \E p \in Procs : InitKeyGenerated(p)
    \/ \E p \in Procs : InitKeyFailed(p)
    \/ ConstructCertificateAuthority
    \/ \E err \in Outcomes : CaInitializeCallback(err)
    \/ \E p \in Procs : TaskCreateCertificateRequest(p)
    \/ \E p \in Procs : CsrDone(p)
    \/ \E p \in Procs : CsrFailed(p)
    \/ \E err \in Outcomes : TaskSignCertificateRequest(err)
    \/ TaskCopyOutput
    \/ \E p \in Procs : TaskCreateSelfSignedCertificate(p)
    \/ \E p \in Procs : SelfSignedDone(p)
    \/ \E p \in Procs : SelfSignedFailed(p)
    \/ \E err \in Outcomes : TaskRevokeCertificate(err)
    \/ DemoKeyExists
    \/ \E err \in Outcomes : DemoKeyCallback(err)
    \/ DemoCreateCertificate
    \/ \E err \in Outcomes : DemoCsrCallback(err)
    \/ \E err \in Outcomes : DemoSignCallback(err)
    \/ \E p \in Procs : TaskReturn(p)
    \/ \E p \in Procs : TaskThrows(p)

\* The application has one trusted certificate in its store.
InitCLI == Init /\ files = [trusted |-> {makeSHA1Thumbprint(1)}, rejected |-> {}]

SpecCLI == InitCLI /\ [][NextCLI]_vars

\* One caller at a time asks the manager for requests and self-signed
\* certificates, before or after initialize, while the clock advances.
NextOwn ==
    \/ Tick
    \/ \E p \in Procs : AllIdle /\ FreeSlot(p) /\ CallInitialize(p)
    \/ \E p \in Procs, params \in ParamsSet :
          AllIdle /\ FreeSlot(p) /\ CallCreateCertificateRequest(p, params)
    \/ \E p \in Procs, params \in ParamsSet :
          AllIdle /\ FreeSlot(p) /\ CallCreateSelfSignedCertificate(p, params)
    \/ \E p \in Procs : InitWriteConfig(p)
    \/ \E p \in Procs : InitExists(p)
    \/ \E p \in Procs : InitKeyGenerated(p)
    \/ \E p \in Procs : InitKeyFailed(p)
    \/ \E p \in Procs : CsrDone(p)
    \/ \E p \in Procs : CsrFailed(p)
    \/ \E p \in Procs : SelfSignedDone(p)
    \/ \E p \in Procs : SelfSignedFailed(p)
    \/ \E p \in Procs : Return(p)

SpecOwn == InitOwn /\ [][NextOwn]_vars

TypeOK ==
    /\ files \in [Folders -> SUBSET Thumbs]
    /\ thumbs \in [Folders -> SUBSET Thumbs]
    /\ own \in [dirs : BOOLEAN, config : BOOLEAN, key : BOOLEAN]
    /\ revoked \subseteq Certs
    /\ lastMove \in [Certs -> {"none", "trusted", "rejected", "failed"}]
    /\ lastStatus \in [cert : Certs \cup {Null}, status : {"none", "trusted", "rejected"},
                        wrote : BOOLEAN]
    /\ \A p \in Procs : proc[p].callbacks \in 0..1

\* ------------------------------------------------------------------- claims
\* The operations whose callback has been invoked.
Finished(kind) == {p \in Procs : proc[p].pc = "done" /\ proc[p].kind = kind}

TimeValid(r) == r.notBefore <= r.now /\ r.now < r.notAfter

\* C1: once trustCertificate(C) has returned without error, every
\* getCertificateStatus(C) that returns afterwards returns "trusted" until
\* rejectCertificate(C) is called; and the same with "rejected" after a
\* rejectCertificate(C), until trustCertificate(C) is called.
StatusFollowsLastMove ==
    \A p \in Finished("status") :
        (proc[p].err = "none" /\ lastMove[proc[p].cert] \in {"trusted", "rejected"})
            => proc[p].status = lastMove[proc[p].cert]

StatusFollowsLastMoveWitness ==
    \E p \in Finished("status") :
        /\ proc[p].err = "none"
        /\ lastMove[proc[p].cert] = "trusted"
        /\ proc[p].status = "trusted"
        /\ \E c \in Certs : lastMove[c] = "rejected"

\* C2: a getCertificateStatus that returns without error returns "trusted" or
\* "rejected", never "unknown"; when the lookup found the thumbprint in neither
\* set, rejected/<thumbprint>.pem has been written and "rejected" is returned.
StatusNeverUnknown ==
    \A p \in Finished("status") :
        proc[p].err = "none" =>
            /\ proc[p].status \in {"trusted", "rejected"}
            /\ (proc[p].before = "unknown" \/ proc[p].lookup = "unknown") =>
                  /\ proc[p].status = "rejected"
                  /\ makeSHA1Thumbprint(proc[p].cert) \in files.rejected

StatusNeverUnknownWitness ==
    \E p \in Finished("status") :
        /\ proc[p].err = "none"
        /\ proc[p].before = "unknown"
        /\ proc[p].status = "rejected"
        /\ makeSHA1Thumbprint(proc[p].cert) \in files.rejected

\* C3: a trustCertificate / rejectCertificate whose rename reports an error
\* leaves both sets of the index as they were before the rename was attempted.
IndexKeptOnRenameError ==
    [][\A p \in Procs :
          (proc[p].pc = "rename" /\ proc'[p].pc = "done" /\ proc'[p].err # "none")
              => thumbs' = thumbs]_vars

\* C4: after a trustCertificate(C) / rejectCertificate(C) that returned an error,
\* getCertificateStatus(C) and the trust step of verifyCertificate(C) report the
\* status of the directory that holds <thumbprint>.pem.
ConsistentAfterFailedMove ==
    /\ \A p \in Finished("status") :
          (proc[p].err = "none" /\ lastMove[proc[p].cert] = "failed")
              => proc[p].status = DirStatus(makeSHA1Thumbprint(proc[p].cert))
    /\ \A p \in Finished("verify") :
          (proc[p].cert \in Certs /\ proc[p].consulted /\ lastMove[proc[p].cert] = "failed")
              => proc[p].lookup = DirStatus(makeSHA1Thumbprint(proc[p].cert))

\* C5: verifyCertificate of a certificate that the authority has revoked fails
\* with BadCertificateRevoked, also when the certificate is trusted and the
\* current time is in its validity window.
RevokedFailsVerify ==
    \A p \in Finished("verify") :
        (proc[p].cert \in revoked /\ TimeValid(proc[p]) /\ proc[p].lookup = "trusted")
            => proc[p].err = "BadCertificateRevoked"

\* C6: verifyCertificate of a time-valid certificate fails with
\* BadCertificateUntrusted when the status of the certificate is "unknown" or
\* "rejected", and returns no error only when the status is "trusted".
UntrustedFailsVerify ==
    \A p \in Finished("verify") :
        (proc[p].cert # Null /\ TimeValid(proc[p])) =>
            LET status == IndexStatus(thumbs, makeSHA1Thumbprint(proc[p].cert))
            IN /\ status \in {"unknown", "rejected"} => proc[p].err = "BadCertificateUntrusted"
               /\ proc[p].err = "none" => status = "trusted"

UntrustedFailsVerifyWitness ==
    \E p \in Finished("verify") :
        /\ proc[p].cert \in Certs
        /\ TimeValid(proc[p])
        /\ IndexStatus(thumbs, makeSHA1Thumbprint(proc[p].cert)) = "unknown"
        /\ proc[p].err = "BadCertificateUntrusted"

\* C7: verifyCertificate of a certificate with notAfter < now fails with
\* BadCertificateTimeInvalid whatever the trust status of the certificate, and
\* without a lookup in the trust index.
ExpiredFailsBeforeTrust ==
    \A p \in Finished("verify") :
        (proc[p].cert # Null /\ proc[p].notAfter < proc[p].now) =>
            /\ proc[p].err = "BadCertificateTimeInvalid"
            /\ ~proc[p].consulted

ExpiredFailsBeforeTrustWitness ==
    \E p \in Finished("verify") :
        /\ proc[p].cert \in Certs
        /\ proc[p].notAfter < proc[p].now
        /\ makeSHA1Thumbprint(proc[p].cert) \in files.trusted
        /\ makeSHA1Thumbprint(proc[p].cert) \in thumbs.trusted \ thumbs.rejected
        /\ proc[p].err = "BadCertificateTimeInvalid"

\* C8: verifyCertificate fails with BadCertificateTimeInvalid exactly when
\* now < notBefore or now >= notAfter: now = notBefore passes the first date
\* check, now = notAfter fails as expired.
ValidityWindowBounds ==
    \A p \in Finished("verify") :
        proc[p].cert \in Certs =>
            (proc[p].err = "BadCertificateTimeInvalid"
                <=> (proc[p].now < NotBefore(proc[p].cert)
                        \/ proc[p].now >= NotAfter(proc[p].cert)))

ValidityWindowBoundsWitness ==
    \E p \in Finished("verify") :
        /\ proc[p].cert \in Certs
        /\ proc[p].now = NotAfter(proc[p].cert)
        /\ proc[p].err = "BadCertificateTimeInvalid"

\* C9: verifyCertificate of a missing certificate (null, undefined, or an empty
\* buffer) invokes its callback once, with the missing-certificate error,
\* before any other check.
MissingCertificateFails ==
    \A p \in Procs :
        (proc[p].kind = "verify" /\ proc[p].cert \in {Null, Empty}) =>
            /\ proc[p].pc = "done"
            /\ proc[p].err = "BadSecurityChecksFailed"
            /\ proc[p].callbacks = 1
            /\ ~proc[p].consulted

\* C10: no step of verifyCertificate, whatever its outcome, creates, moves or
\* writes a file under trusted/, rejected/ or own/.
VerifyChangesNoFile ==
    [][(\E p \in Procs : proc[p].kind = "verify" \/ proc'[p].kind = "verify")
          => (files' = files /\ own' = own)]_vars

VerifyChangesNoFileWitness ==
    \E p \in Finished("verify") :
        /\ proc[p].lookup = "unknown"
        /\ proc[p].cert \in Certs
        /\ DirStatus(makeSHA1Thumbprint(proc[p].cert)) = "unknown"
        /\ ~own.dirs

\* C11: concurrent trustCertificate / rejectCertificate calls on one certificate
\* end as in some sequential order of the same calls.  With a file system that
\* does not fail by itself every call of a sequential order returns without
\* error, so every concurrent call does.
RacingMovesSucceed ==
    \A p \in Finished("move") : proc[p].err = "none"

\* C12: from a store in which no thumbprint has a file in both trusted/ and
\* rejected/, no interleaving of getCertificateStatus, trustCertificate and
\* rejectCertificate calls puts a thumbprint's file in both, and a certificate
\* whose trustCertificate has succeeded has no file in rejected/ until it is
\* rejected.
OneFolderPerThumbprint ==
    /\ files.trusted \cap files.rejected = {}
    /\ \A c \in Certs :
          lastMove[c] = "trusted" => makeSHA1Thumbprint(c) \notin files.rejected

\* C13: trustCertificate(C) on a certificate whose file is in trusted/, and
\* rejectCertificate(C) on one whose file is in rejected/, returns without error
\* and as a no-op: it starts no write and no rename, and the file stays where
\* it was.
MoveToSameStatusIsNoOp ==
    \A p \in Procs :
        (proc[p].kind = "move" /\ proc[p].before = proc[p].newStatus) =>
            /\ proc[p].pc \notin {"write", "rename"}
            /\ proc[p].pc = "done" =>
                  /\ proc[p].err = "none"
                  /\ DirStatus(makeSHA1Thumbprint(proc[p].cert)) = proc[p].newStatus

\* C14: getCertificateStatus is idempotent: when a status query of a certificate
\* has returned a result and the next operation is a status query of the same
\* certificate, it returns the same result, also when the first query was the
\* first sighting of the certificate.
StatusIdempotent ==
    \A p \in Finished("status") :
        (proc[p].err = "none" /\ lastStatus.cert = proc[p].cert) =>
            proc[p].status = lastStatus.status

StatusIdempotentWitness ==
    \E p \in Finished("status") :
        /\ proc[p].err = "none"
        /\ lastStatus.cert = proc[p].cert
        /\ lastStatus.wrote
        /\ proc[p].status = "rejected"

\* C15: after a status query has written rejected/<thumbprint>.pem for a
\* certificate never seen, the next status query of that certificate returns
\* "rejected" and writes nothing; the file is only ever written for a
\* thumbprint that is in neither folder, hence once at most.
FirstSightingWrittenOnce ==
    \A p \in Procs :
        /\ proc[p].pc = "write" =>
              /\ DirStatus(makeSHA1Thumbprint(proc[p].cert)) = "unknown"
              /\ proc[p].before = "unknown"
        /\ (proc[p].kind = "status" /\ lastStatus.cert = proc[p].cert /\ lastStatus.wrote) =>
              /\ proc[p].pc # "write"
              /\ proc[p].lookup \in {"none", "rejected"}
              /\ (proc[p].pc = "done" /\ proc[p].err = "none") => proc[p].status = "rejected"

FirstSightingWrittenOnceWitness ==
    \E p \in Finished("status") :
        /\ lastStatus.cert = proc[p].cert
        /\ lastStatus.wrote
        /\ proc[p].before = "rejected"
        /\ proc[p].lookup = "rejected"
        /\ proc[p].err = "none"

\* C16: the lifecycle of a peer certificate is append-only: no step removes a
\* thumbprint from both folders, a thumbprint is never in the two folders at
\* once, and a thumbprint enters trusted/ only in a step of trustCertificate of
\* that certificate.
LifecycleAppendOnly ==
    [][\A c \in Certs :
          LET t == makeSHA1Thumbprint(c)
          IN /\ (t \in files.trusted \cup files.rejected) =>
                   (t \in files'.trusted \cup files'.rejected)
             /\ ~(t \in files'.trusted /\ t \in files'.rejected)
             /\ (t \notin files.trusted /\ t \in files'.trusted) =>
                   \E p \in Procs : /\ proc[p].kind = "move"
                                     /\ proc[p].newStatus = "trusted"
                                     /\ proc[p].cert = c
                                     /\ proc[p].pc = "rename"
                                     /\ proc'[p].pc = "done"
                                     /\ proc'[p].err = "none"]_vars

LifecycleAppendOnlyWitness ==
    \E p \in Finished("move"), c \in Certs :
        /\ proc[p].cert = c
        /\ proc[p].newStatus = "rejected"
        /\ proc[p].before = "trusted"
        /\ proc[p].err = "none"
        /\ lastMove[c] = "rejected"
        /\ DirStatus(makeSHA1Thumbprint(c)) = "rejected"

KeyGeneratedAtMostOnce ==
    [][\A p \in Procs :
          (proc[p].pc = "init_keygen" /\ proc'[p].keygen = "generated") => ~own.key]_vars

\* C20: a failure of the bootstrap is returned to the caller of every operation
\* that runs it: after a failed key generation the operation has ended with
\* that error, has looked up no status and has started no write and no rename.
BootstrapFailureSurfaced ==
    \A p \in Procs :
        proc[p].keygen = "failed" =>
            /\ proc[p].pc = "done"
            /\ proc[p].err = "KeyGenerationError"
            /\ ~proc[p].consulted

\* C21: any two calls of createCertificateRequest on one manager, also two calls
\* within the same millisecond, compose different file names for their
\* requests: no call composes a name that an earlier call composed.
RequestNamesDistinct ==
    \A p \in Procs : proc[p].kind = "csr" => ~proc[p].composedBefore

\* C22: createCertificateRequest with rootDir, configFile or privateKey set in
\* its parameters fails with an error, calls no function of the crypto
\* toolchain and creates no request file.
PresetParamsRejected ==
    [][\A p \in Procs :
          (/\ proc'[p].kind = "csr"
           /\ \/ proc'[p].params.rootDir
              \/ proc'[p].params.configFile
              \/ proc'[p].params.privateKey) =>
              /\ proc'[p].pc = "thrown"
              /\ proc'[p].err # "none"
              /\ ~proc'[p].toolchain
              /\ issued'.csr = issued.csr]_vars

PresetParamsRejectedWitness ==
    \E p \in Procs :
        /\ proc[p].kind = "csr"
        /\ proc[p].pc = "thrown"
        /\ proc[p].params.privateKey
        /\ ~proc[p].params.rootDir

IndexSetsDisjoint == thumbs.trusted \cap thumbs.rejected = {}

\* C28: the folders are scanned at most once per manager: after a status query
\* has returned, the status query that follows it is answered from the index
\* and walks no folder.
ScannedOnce ==
    \A p \in Procs :
        lastStatus.cert # Null => proc[p].pc \notin {"walk", "walk_file"}

\* C29: a file that disappears between the listing of its folder and its
\* reading is skipped by the scan: no operation ends in an uncaught exception,
\* the scan completes and the callback is invoked.
ScanSkipsVanishedFile ==
    \A p \in Procs : proc[p].pc # "crashed"

\* The task of the pipeline has called back without error in this step.
TaskSucceeds ==
    /\ cli'.commands = cli.commands
    /\ cli'.cmd = cli.cmd
    /\ \/ cli'.task = cli.task + 1
       \/ cli'.pc = "completed" /\ cli.pc # "completed" /\ cli'.err = "none"

PipelineInOrder ==
    [][/\ (cli'.cmd = cli.cmd /\ cli'.commands = cli.commands) =>
             /\ cli'.task \in {cli.task, cli.task + 1}
             /\ cli'.task = cli.task + 1 =>
                    /\ cli.pc \notin {"completed", "thrown"}
                    /\ cli'.pc = "task"
                    /\ cli'.err = "none"
                    /\ \A q \in Procs : proc'[q].pc = "idle"
                    /\ \A q \in Procs : proc[q].err = "none"
             /\ \A q \in Procs :
                    (proc[q].pc = "done" /\ proc[q].err # "none" /\ proc'[q].pc = "idle"
                     /\ proc[q].kind # "verify") =>
                        /\ cli'.pc = "completed"
                        /\ cli'.err = proc[q].err
             /\ cli.pc = "completed" => (cli'.pc = "completed" /\ cli'.err = cli.err)
             /\ (cli'.pc = "completed" /\ cli'.err = "none") => cli'.task = Len(Tasks(cli'.cmd))
       /\ \A q \in Procs :
             proc'[q].kind = "verify" =>
                /\ proc'[q].consulted => TimeValid(proc'[q])
                /\ (proc'[q].pc = "done" /\ proc'[q].cert # Null /\ ~TimeValid(proc'[q])) =>
                       proc'[q].err = "BadCertificateTimeInvalid"
                /\ proc'[q].callbacks <= 1]_vars

PipelineInOrderWitness ==
    /\ cli.cmd = "certificate"
    /\ cli.pc = "completed"
    /\ cli.err = "ToolchainError"
    /\ TaskName = "createCertificateRequest"
    /\ cli.the_csr_file = <<>>

\* C26: when the pipeline of a command has failed, the callback given to main
\* has been called with an error.
PipelineFailureReported ==
    (cli.pc = "completed" /\ cli.err # "none") =>
        \E i \in DOMAIN cli.dones : cli.dones[i] # "none"

\* C30: construct_CertificateManager and construct_CertificateAuthority call
\* back without error only when the initialize of the shared instance has
\* completed without error: never while it is in flight or after it failed.
BootstrapBarrier ==
    [][/\ (cli.pc = "task" /\ TaskName = "construct_CertificateManager" /\ TaskSucceeds)
             => own'.key
       /\ (/\ cli.pc \in {"task", "ca_initialize"}
           /\ TaskName = "construct_CertificateAuthority"
           /\ TaskSucceeds) => issued'.caKey]_vars

\* C31: the key size given to createPrivateKey is one of 1024, 2048, 3072 and
\* 4096, whatever the command line and the configuration file say.
KeySizeValid ==
    \A p \in Procs :
        (proc[p].kind = "construct" /\ proc[p].pc = "init_keygen") =>
            cli.managerKeySize \in KeySizes

\* C32: a getCertificateStatus that returns "trusted", and a verifyCertificate
\* whose trust step passes, have the certificate's file in trusted/ and none
\* in rejected/, whatever calls, failed renames and moves by a second manager
\* came before.
DefaultDeny ==
    \A p \in Procs :
        (/\ proc[p].pc = "done"
         /\ proc[p].err = "none"
         /\ \/ proc[p].kind = "status" /\ proc[p].status = "trusted"
            \/ proc[p].kind = "verify" /\ proc[p].lookup = "trusted") =>
            /\ makeSHA1Thumbprint(proc[p].cert) \in files.trusted
            /\ makeSHA1Thumbprint(proc[p].cert) \notin files.rejected

DefaultDenyWitness ==
    \E p \in Procs :
        /\ proc[p].pc = "done"
        /\ proc[p].kind = "status"
        /\ proc[p].status = "rejected"
        /\ makeSHA1Thumbprint(proc[p].cert) \in thumbs.trusted
        /\ makeSHA1Thumbprint(proc[p].cert) \in files.trusted \cap files.rejected

\* C33: a thumbprint with a file in both folders, or an entry in both index
\* sets, has the status "rejected"; a trustCertificate that then succeeds leaves
\* the file in trusted/ only, and the status is "trusted" from then on.
TieBreak ==
    \A p \in Procs :
        LET t == makeSHA1Thumbprint(proc[p].cert)
            ended == proc[p].pc = "done" /\ proc[p].err = "none"
        IN /\ (/\ ended
               /\ proc[p].kind = "status"
               /\ \/ t \in files.trusted \cap files.rejected
                  \/ t \in thumbs.trusted \cap thumbs.rejected) =>
                  proc[p].status = "rejected"
           /\ (ended /\ proc[p].kind = "move" /\ proc[p].newStatus = "trusted") =>
                  /\ t \in files.trusted \ files.rejected
                  /\ IndexStatus(thumbs, t) = "trusted"
           /\ (ended /\ proc[p].kind = "status" /\ lastMove[proc[p].cert] = "trusted") =>
                  proc[p].status = "trusted"

TieBreakWitness ==
    \E p \in Procs :
        /\ proc[p].pc = "done"
        /\ proc[p].err = "none"
        /\ proc[p].kind = "move"
        /\ proc[p].newStatus = "trusted"
        /\ proc[p].before = "trusted"
        /\ proc[p].lookup = "rejected"

\* What _getCertificateStatus reports of thumbprint t: the lookup in the
\* index after the scan has added the files of the folders to it.
StatusAfterScan(idx, dir, t) ==
    IndexStatus([f \in Folders |-> idx[f] \cup dir[f]], t)

\* C34 as stated: a step of getCertificateStatus(C), trustCertificate(C) or
\* rejectCertificate(C) changes no file and no index entry of a thumbprint
\* other than C's.
FrameOfOtherThumbprints ==
    [][\A p \in Procs :
          proc'[p].kind \in {"status", "move"} =>
             \A d \in Thumbs \ {makeSHA1Thumbprint(proc'[p].cert)} :
                \A f \in Folders :
                   /\ d \in files[f] <=> d \in files'[f]
                   /\ d \in thumbs[f] <=> d \in thumbs'[f]]_vars

\* C34, amended: such a step changes no file of another thumbprint and removes
\* none of its index entries; the entries it adds are those of the files the
\* scan finds, so that the status a query reports of the other thumbprint is
\* the same before and after, whether the call succeeds or fails.
FrameUpToScan ==
    [][\A p \in Procs :
          proc'[p].kind \in {"status", "move"} =>
             \A d \in Thumbs \ {makeSHA1Thumbprint(proc'[p].cert)} :
                /\ \A f \in Folders :
                      /\ d \in files[f] <=> d \in files'[f]
                      /\ d \in thumbs[f] => d \in thumbs'[f]
                      /\ d \in thumbs'[f] \ thumbs[f] => d \in files[f]
                /\ StatusAfterScan(thumbs', files', d) = StatusAfterScan(thumbs, files, d)]_vars

FrameUpToScanWitness ==
    \E p \in Procs :
        /\ proc[p].pc = "done"
        /\ proc[p].kind = "move"
        /\ proc[p].err # "none"
        /\ \E d \in Thumbs \ {makeSHA1Thumbprint(proc[p].cert)} :
              d \in thumbs.trusted /\ d \in files.trusted

\* C35 as stated: an operation that calls the toolchain has set rootDir,
\* configFile and privateKey of params to the manager's, and the params
\* object of every createSelfSignedCertificate and createCertificateRequest
\* that has returned is one a later createCertificateRequest rejects.
ParamsLeftManaged ==
    \A p \in Procs :
        proc[p].kind \in {"csr", "selfsigned"} =>
            /\ proc[p].toolchain => proc[p].left = ManagerFields(proc[p].params)
            /\ proc[p].pc \in {"done", "thrown"} => PresetError(proc[p].left) # "none"

\* C35, amended: the params object is rejected by a later
\* createCertificateRequest when the operation has reached its call of the
\* toolchain, or when it had one of the three fields set already; an operation
\* that ends before that call leaves params as it was passed.
ParamsLeftManagedByToolchainCalls ==
    \A p \in Procs :
        proc[p].kind \in {"csr", "selfsigned"} =>
            /\ proc[p].toolchain =>
                  /\ proc[p].left = ManagerFields(proc[p].params)
                  /\ PresetError(proc[p].left) # "none"
                  /\ proc[p].kind = "csr" => PresetError(proc[p].params) = "none"
            /\ ~proc[p].toolchain =>
                  /\ proc[p].left = proc[p].params
                  /\ proc[p].kind = "csr" => PresetError(proc[p].params) # "none"

ParamsLeftManagedByToolchainCallsWitness ==
    \E p \in Procs :
        /\ proc[p].kind = "selfsigned"
        /\ proc[p].pc = "done"
        /\ proc[p].toolchain
        /\ proc[p].params.rootDir
        /\ ~proc[p].params.privateKey
        /\ proc[p].left.privateKey

\* C36: in the certificate command the output file is written by the last
\* task only, with the certificate signed in this run: the configuration has
\* been read, the manager and the authority constructed, the request created
\* and signed, each without error.
OutputWrittenLast ==
    [][/\ issued'.output # issued.output =>
             /\ cli.cmd = "certificate"
             /\ cli.pc = "task"
             /\ cli.task = Len(Tasks("certificate"))
             /\ cli'.pc = "completed"
             /\ cli'.err = "none"
             /\ issued'.output = Content(issued.signed, cli.the_csr_file)
       /\ (cli.cmd = "certificate" /\ cli.pc = "task" /\ TaskName = "copyOutput") =>
             /\ cli.keySize # NotLoaded
             /\ cli.manager
             /\ cli.authority
             /\ cli.the_csr_file \in issued.csr
             /\ CertificateExists(cli.the_csr_file)
       /\ (cli.cmd = "certificate" /\ cli.pc = "task"
           /\ TaskName = "signCertificateRequest") =>
             /\ cli.the_csr_file \in issued.csr
             /\ cli.authority]_vars

OutputWrittenLastWitness ==
    /\ cli.cmd = "certificate"
    /\ cli.pc = "completed"
    /\ cli.err = "none"
    /\ cli.commands = MaxCommands
    /\ issued.output = issued.serial
    /\ issued.serial > 1

\* C37: a pipeline that has stopped, with or without a failure, has invoked
\* the completion callback (after the call that main makes when the parsing
\* returns).
PipelineCallsDone ==
    cli.pc \in {"completed", "thrown"} => Len(cli.dones) > 1

\* C38: the callback given to main is invoked once for a command, and not
\* before the command's pipeline has finished.
DoneOnceAfterPipeline ==
    /\ Len(cli.dones) <= 1
    /\ Len(cli.dones) = 1 => cli.pc = "completed"

\* C39: the host name is computed at most once in a process, and every call
\* returns the name that computation gave, cut to maxLength characters when
\* maxLength is not 0.
HostNameCachedOnce ==
    /\ cli.computed <= 1
    /\ cli.asked # NotAsked =>
          /\ cli.result = trim(cli.first, cli.asked)
          /\ cli.asked > 0 => Len(cli.result) = Min(cli.asked, Len(cli.first))

====
